---- MODULE Spec2Model ----
(***************************************************************************)
(* A model of process_consistency: the POSIX region enumerator             *)
(* (src/linux/mod.rs), the fingerprinting of a region, the consistency     *)
(* loop run_checker and the one-shot run_benchmark (src/lib.rs).           *)
(*                                                                         *)
(* Text (a line of /proc/self/maps, a field, a path) is a sequence of      *)
(* one-character strings, so that splitting and parsing are computed.      *)
(***************************************************************************)
EXTENDS Integers, Sequences, FiniteSets, TLC

\* ------------------------------------------------------------- bounds
\* width of usize, scaled down (an address is at most 2^UsizeBits - 1)
UsizeBits == 8
\* the longest mapping table handed to the enumerator on its own
MaxLines == 2
\* run_checker is followed for this many iterations of its loop
MaxIter == 3
\* the longest check_period tried, in clock ticks
MaxPeriod == 2
\* digests are taken modulo HashMod (a scaled-down digest width)
HashMod == 3
\* the address space walked on Windows has the pages 0 .. MaxAddr - 1
MaxAddr == 3

\* ------------------------------------------------------------- text
WhiteSpace == {" ", "\t"}

HexValue ==
  [c \in {"0","1","2","3","4","5","6","7","8","9",
          "a","b","c","d","e","f","A","B","C","D","E","F"} |->
     CASE c = "0" -> 0 [] c = "1" -> 1 [] c = "2" -> 2 [] c = "3" -> 3
       [] c = "4" -> 4 [] c = "5" -> 5 [] c = "6" -> 6 [] c = "7" -> 7
       [] c = "8" -> 8 [] c = "9" -> 9
       [] c \in {"a", "A"} -> 10 [] c \in {"b", "B"} -> 11
       [] c \in {"c", "C"} -> 12 [] c \in {"d", "D"} -> 13
       [] c \in {"e", "E"} -> 14 [] c \in {"f", "F"} -> 15]

UsizeMax == 2 ^ UsizeBits - 1

\* str::split_whitespace: the maximal runs of non-whitespace characters
RECURSIVE split_ws(_, _, _, _)
split_ws(line, i, cur, acc) ==
  IF i > Len(line)
  THEN IF cur = <<>> THEN acc ELSE Append(acc, cur)
  ELSE IF line[i] \in WhiteSpace
       THEN split_ws(line, i + 1, <<>>, IF cur = <<>> THEN acc ELSE Append(acc, cur))
       ELSE split_ws(line, i + 1, Append(cur, line[i]), acc)

split_whitespace(line) == split_ws(line, 1, <<>>, <<>>)

\* str::starts_with
starts_with(s, prefix) ==
  /\ Len(s) >= Len(prefix)
  /\ SubSeq(s, 1, Len(prefix)) = prefix

\* str::split_once(c): the text before and after the first c
split_once(s, c) ==
  LET hits == {i \in 1..Len(s) : s[i] = c}
  IN IF hits = {}
     THEN [found |-> FALSE, left |-> <<>>, right |-> <<>>]
     ELSE LET i == CHOOSE j \in hits : \A k \in hits : j <= k
          IN [found |-> TRUE, left |-> SubSeq(s, 1, i - 1),
              right |-> SubSeq(s, i + 1, Len(s))]

\* usize::from_str_radix(src, 16): an optional leading "+", then one or more
\* hexadecimal digits; an empty text, a foreign character or a value above
\* usize::MAX is an error
RECURSIVE parse_digits(_, _, _)
parse_digits(digits, i, acc) ==
  IF i > Len(digits) THEN [ok |-> TRUE, val |-> acc]
  ELSE IF digits[i] \notin DOMAIN HexValue THEN [ok |-> FALSE, val |-> 0]
  ELSE LET v == acc * 16 + HexValue[digits[i]]
       IN IF v > UsizeMax THEN [ok |-> FALSE, val |-> 0]
          ELSE parse_digits(digits, i + 1, v)

from_str_radix(src) ==
  IF src = <<>> \/ src = <<"+">> \/ src = <<"-">>
  THEN [ok |-> FALSE, val |-> 0]
  ELSE parse_digits(IF src[1] = "+" THEN Tail(src) ELSE src, 1, 0)

\* Path equality (PartialEq for Path) compares components: repeated
\* separators, a trailing separator and "." components do not count
RECURSIVE path_parts(_, _, _, _)
path_parts(s, i, cur, acc) ==
  LET done == IF cur = <<>> \/ (cur = <<".">> /\ (acc # <<>> \/ s[1] = "/"))
              THEN acc ELSE Append(acc, cur)
  IN IF i > Len(s) THEN done
     ELSE IF s[i] = "/" THEN path_parts(s, i + 1, <<>>, done)
     ELSE path_parts(s, i + 1, Append(cur, s[i]), acc)

path_components(s) ==
  [root |-> (s # <<>> /\ s[1] = "/"), parts |-> path_parts(s, 1, <<>>, <<>>)]

path_eq(a, b) == path_components(a) = path_components(b)

\* ------------------------------------------------------------- regions
\* struct Region {start, end, source}
Region(start, end, source) == [start |-> start, end |-> end, source |-> source]

\* Result<Vec<Region>, Error>, and the unwinding of a panic
Ok(regions) == [kind |-> "Ok", err |-> "none", regions |-> regions]
Err(e) == [kind |-> "Err", err |-> e, regions |-> <<>>]
Panicked(msg) == [kind |-> "Panic", err |-> msg, regions |-> <<>>]

\* ------------------------------------------------------------- the POSIX enumerator
\* What one call of the enumerator finds in its environment:
\*   open_ok       whether File::open("/proc/self/maps") succeeds
\*   lines         the lines of the file
\*   read_fail_at  the line whose read fails (0: none does)
\*   current_exe   the outcome of std::env::current_exe()

\* let filter = if skip_libs { current_exe().ok() } else { None }
exe_filter(w, skip_libs) ==
  IF skip_libs /\ w.current_exe.ok
  THEN [some |-> TRUE, path |-> w.current_exe.path]
  ELSE [some |-> FALSE, path |-> <<>>]

\* a slip: every line is taken, whatever its permission field
line_selected_always(segments, include_writable_code) == TRUE

\* the lines that are not skipped by the permission test
line_selected(segments, include_writable_code) ==
  \/ starts_with(segments[2], <<"r", "-", "x">>)
  \/ (include_writable_code /\ starts_with(segments[2], <<"r", "w", "x">>))

\* a slip: a line without a path field has the empty source
source_of_or_empty(segments) ==
  IF Len(segments) >= 6
  THEN [some |-> TRUE, path |-> segments[6]]
  ELSE [some |-> TRUE, path |-> <<>>]

\* segments.get(5).copied()
source_of(segments) ==
  IF Len(segments) >= 6
  THEN [some |-> TRUE, path |-> segments[6]]
  ELSE [some |-> FALSE, path |-> <<>>]

\* the body of `for line in BufReader::new(file).lines()`, from line k on
RECURSIVE scan_lines(_, _, _, _, _)
scan_lines(w, k, filter, include_writable_code, regions) ==
  IF k = w.read_fail_at THEN Err("ProcFsUnavailable")
  ELSE IF k > Len(w.lines) THEN Ok(regions)
  ELSE
    LET segments == split_whitespace(w.lines[k])
    IN IF Len(segments) < 2 THEN Panicked("index out of bounds")
       ELSE IF ~line_selected(segments, include_writable_code)
       THEN scan_lines(w, k + 1, filter, include_writable_code, regions)
       ELSE
         LET range == split_once(segments[1], "-")
             start == from_str_radix(range.left)
             end   == from_str_radix(range.right)
         IN IF ~range.found \/ ~start.ok \/ ~end.ok THEN Err("ProcFsFormatError")
            ELSE IF ~source_of(segments).some THEN Err("ProcFsFormatError")
            ELSE IF filter.some /\ ~path_eq(source_of(segments).path, filter.path)
            THEN scan_lines(w, k + 1, filter, include_writable_code, regions)
            ELSE scan_lines(w, k + 1, filter, include_writable_code,
                            Append(regions,
                                   Region(start.val, end.val, source_of(segments).path)))

get_executable_regions(w, skip_libs, include_writable_code) ==
  IF ~w.open_ok THEN Err("ProcFsUnavailable")
  ELSE scan_lines(w, 1, exe_filter(w, skip_libs), include_writable_code, <<>>)

\* get_all_regions on a unix build
get_all_regions(w, skip_libs, include_writable_code) ==
  get_executable_regions(w, skip_libs, include_writable_code)

\* ------------------------------------------------------------- mapping tables
RECURSIVE join_fields(_)
join_fields(fields) ==
  IF fields = <<>> THEN <<>>
  ELSE IF Len(fields) = 1 THEN fields[1]
  ELSE fields[1] \o <<" ">> \o join_fields(Tail(fields))

AppPath == <<"/", "a", "p", "p">>
LibPath == <<"/", "l", "i", "b">>
DeletedMark == <<"(", "d", "e", "l", "e", "t", "e", "d", ")">>

\* "range perms offset dev inode [pathname]"
MapLine(range, perms, inode, pathname) ==
  join_fields(<<range, perms, <<"0">>, <<"f", "d">>, inode>> \o pathname)

PermRX  == <<"r", "-", "x", "p">>
PermRWX == <<"r", "w", "x", "p">>
PermRW  == <<"r", "w", "-", "p">>

\* lines as the kernel writes them
LineApp    == MapLine(<<"0", "-", "2">>, PermRX, <<"7">>, <<AppPath>>)
LineLib    == MapLine(<<"2", "-", "3">>, PermRX, <<"8">>, <<LibPath>>)
LineLibW   == MapLine(<<"2", "-", "3">>, PermRWX, <<"8">>, <<LibPath>>)
LineJit    == MapLine(<<"3", "-", "4">>, PermRWX, <<"0">>, <<>>)
LineData   == MapLine(<<"4", "-", "5">>, PermRW, <<"7">>, <<AppPath>>)
LineAppDel == MapLine(<<"0", "-", "2">>, PermRX, <<"7">>, <<AppPath, DeletedMark>>)

KernelLines == {LineApp, LineLib, LineLibW, LineJit, LineData, LineAppDel}

\* contents the kernel does not write
LineEmpty    == <<>>
LineOneField == <<"0", "-", "2">>
LineNoDash   == MapLine(<<"0", "2">>, PermRX, <<"7">>, <<AppPath>>)
LineBadHex   == MapLine(<<"0", "-", "g">>, PermRX, <<"7">>, <<AppPath>>)
LineBadData  == MapLine(<<"z", "-", "5">>, PermRW, <<"7">>, <<AppPath>>)
LineReversed == MapLine(<<"2", "-", "0">>, PermRX, <<"7">>, <<AppPath>>)
LineTooWide  == MapLine(<<"0", "-", "f", "f", "f", "f">>, PermRX, <<"7">>, <<AppPath>>)

ForeignLines == {LineEmpty, LineOneField, LineNoDash, LineBadHex, LineBadData,
                 LineReversed, LineTooWide}

\* std::env::current_exe(): the path, the path of a binary that was unlinked
\* (the link target then ends in " (deleted)"), or an error
ExeOutcomes ==
  { [ok |-> TRUE, path |-> AppPath],
    [ok |-> TRUE, path |-> AppPath \o <<" ">> \o DeletedMark],
    [ok |-> FALSE, path |-> <<>>] }

SeqsUpTo(S, n) == UNION {[1..k -> S] : k \in 0..n}

Env(open_ok, lines, read_fail_at, current_exe) ==
  [open_ok |-> open_ok, lines |-> lines, read_fail_at |-> read_fail_at,
   current_exe |-> current_exe]

\* every mapping state tried on the enumerator alone
AnyEnvs ==
  { Env(o, l, f, e) : o \in BOOLEAN, l \in SeqsUpTo(KernelLines \cup ForeignLines, MaxLines),
                      f \in 0..1, e \in ExeOutcomes }

\* the mapping tables of a running process: the executable, with or without
\* a library (read-only or writable code) and an anonymous writable mapping
KernelFiles ==
  { <<LineApp, LineData>>, <<LineApp, LineLib>>, <<LineApp, LineLibW>>,
    <<LineApp, LineData, LineJit>> }

KernelEnvs ==
  { Env(o, l, f, e) : o \in BOOLEAN, l \in KernelFiles, f \in {0, 2}, e \in ExeOutcomes }

NoEnv == Env(TRUE, <<>>, 0, [ok |-> FALSE, path |-> <<>>])

\* ------------------------------------------------------------- state
VARIABLES
  w,              \* the mapping state handed to the enumerator on its own
  out,            \* the last call of the enumerator on its own
  config,         \* CheckerConfig
  pc,             \* where run_checker / run_benchmark stands
  clock,          \* the monotonic clock read by Instant::now()
  now,            \* run_checker's `now`
  regions,        \* what `for region in regions` has still to visit
  region_hashes,  \* run_checker's HashMap<Region, RegionHash>
  mem,            \* the bytes of the process's memory
  result,         \* what run / benchmark returned, or how it unwound
  iter,           \* history: iterations (calls) started
  cands,          \* history: the candidate list of this iteration
  cbs,            \* history: the MemoryErrors handed to error_callback in this iteration
  hashed,         \* history: the compute_hash calls of this iteration
  prevTracked,    \* history: region_hashes when this iteration started
  prevNow,        \* history: `now` of the iteration before
  prevHashed,     \* history: the compute_hash calls of the iteration before
  enumCalls,      \* history: calls of get_all_regions
  enumRes,        \* history: what the last call of get_all_regions returned
  pruned,         \* history: the entries the prune step removed (the last of each region)
  module,         \* the Module whose pages are walked (Windows)
  vm,             \* what VirtualQuery reports of the address space (Windows)
  pos,            \* the page walker's `pos`
  info            \* the MEMORY_BASIC_INFORMATION of the walker's last query

vars == <<w, out, config, pc, clock, now, regions, region_hashes, mem, result,
          iter, cands, cbs, hashed, prevTracked, prevNow, prevHashed, enumCalls, enumRes,
          pruned, module, vm, pos, info>>

\* no module is walked
NoModule == [base_addr |-> 0, base_size |-> 0, exe_path |-> <<>>]
NoVm == [segments |-> <<>>, fail_at |-> 0]
NoInfo == [BaseAddress |-> 0, RegionSize |-> 0, Protect |-> 0]
NoWalk == module = NoModule /\ vm = NoVm /\ pos = 0 /\ info = NoInfo

Range(s) == {s[i] : i \in DOMAIN s}
Max(a, b) == IF a >= b THEN a ELSE b
EmptyMap == [r \in {} |-> 0]
NoResult == [kind |-> "None", err |-> "none", regions |-> <<>>]
NoCall == [called |-> FALSE, skip_libs |-> FALSE, include_writable_code |-> FALSE,
           res |-> NoResult]

Bytes == {0, 1}
MemAddrs == 0..2

\* ------------------------------------------------------------- fingerprint
\* the bytes of [start, end)
slice_of(region, m) == [i \in 1..(region.end - region.start) |-> m[region.start + i - 1]]

\* a digest of a byte slice: a function of the bytes alone, of fixed width
RECURSIVE digest(_, _, _)
digest(bytes, i, h) ==
  IF i > Len(bytes) THEN h
  ELSE digest(bytes, i + 1, (2 * h + bytes[i] + 1) % HashMod)

\* Region::compute_hash
compute_hash(region, m) == digest(slice_of(region, m), 1, 0)

\* ------------------------------------------------------------- configuration
Configs ==
  [search_once : BOOLEAN, skip_libs : BOOLEAN, check_period : 0..MaxPeriod,
   include_writable_code : BOOLEAN]

\* Duration::from_secs(1), in clock ticks
DefaultPeriod == 1

\* ProcessConsistencyChecker::new()
new_config ==
  [search_once |-> FALSE, skip_libs |-> FALSE, check_period |-> DefaultPeriod,
   include_writable_code |-> FALSE]

\* ------------------------------------------------------------- the enumerator on its own
InitEnum ==
  /\ w \in AnyEnvs
  /\ out = NoCall
  /\ config = new_config
  /\ pc = "enum"
  /\ clock = 0 /\ now = 0
  /\ regions = <<>> /\ region_hashes = EmptyMap
  /\ mem = [a \in MemAddrs |-> 0]
  /\ result = NoResult
  /\ iter = 0 /\ cands = <<>> /\ cbs = <<>> /\ hashed = <<>>
  /\ prevTracked = EmptyMap /\ prevNow = 0 /\ prevHashed = <<>>
  /\ enumCalls = 0 /\ enumRes = NoResult /\ pruned = EmptyMap
  /\ NoWalk

\* one call enumerate(skip_libs, include_writable_code) in the mapping state w
CallEnumerate ==
  /\ pc = "enum"
  /\ \E skip_libs \in BOOLEAN, include_writable_code \in BOOLEAN :
       out' = [called |-> TRUE, skip_libs |-> skip_libs,
               include_writable_code |-> include_writable_code,
               res |-> get_all_regions(w, skip_libs, include_writable_code)]
  /\ UNCHANGED <<w, pruned, module, vm, pos, info, config, pc, clock, now, regions, region_hashes, mem, result,
                 iter, cands, cbs, hashed, prevTracked, prevNow, prevHashed,
                 enumCalls, enumRes>>

NextEnum == CallEnumerate

SpecEnum == InitEnum /\ [][NextEnum]_vars

\* ------------------------------------------------------------- run_checker
Live == {"loop", "hash", "sleep"}

\* struct MemoryError
MemoryError(region, old_hash, new_hash, old_hash_computed_at) ==
  [region |-> region, old_hash |-> old_hash, new_hash |-> new_hash,
   old_hash_computed_at |-> old_hash_computed_at]

\* struct RegionHash
RegionHash(hash, computed_at) == [hash |-> hash, computed_at |-> computed_at]

\* the orders in which HashMap::keys() may yield the keys
KeyOrders(map) ==
  {s \in [1..Cardinality(DOMAIN map) -> DOMAIN map] : Range(s) = DOMAIN map}

\* history kept at the top of the loop body
StartIteration ==
  /\ iter' = iter + 1
  /\ cbs' = <<>>
  /\ hashed' = <<>>
  /\ prevHashed' = hashed
  /\ prevTracked' = region_hashes
  /\ prevNow' = now

\* the history of an iteration ends with it
EndIteration ==
  /\ cands' = <<>>
  /\ cbs' = <<>>
  /\ prevTracked' = EmptyMap
  /\ prevHashed' = <<>>
  /\ prevNow' = 0

\* a slip: an enumeration error is taken for an empty list
try_regions_swallowed(res) ==
  IF res.kind = "Panic"
  THEN /\ pc' = "panicked" /\ result' = res
       /\ regions' = <<>> /\ cands' = <<>>
  ELSE /\ pc' = "hash" /\ result' = result
       /\ regions' = res.regions /\ cands' = res.regions

\* get_all_regions(..)? : the list, or the return of the error
try_regions(res) ==
  CASE res.kind = "Ok" ->
         /\ pc' = "hash" /\ result' = result
         /\ regions' = res.regions /\ cands' = res.regions
    [] res.kind = "Err" ->
         /\ pc' = "returned" /\ result' = res
         /\ regions' = <<>> /\ cands' = <<>>
    [] res.kind = "Panic" ->
         /\ pc' = "panicked" /\ result' = res
         /\ regions' = <<>> /\ cands' = <<>>

\* what get_all_regions can return in a running process, by its two flags
KernelOutcomes ==
  [skip_libs \in BOOLEAN, include_writable_code \in BOOLEAN |->
     {get_all_regions(env, skip_libs, include_writable_code) : env \in KernelEnvs}]

\* a slip: the mapping table is read in every iteration, search_once or not
EnumerateAlways ==
  /\ pc = "loop" /\ iter < MaxIter
  /\ \E res \in KernelOutcomes[config.skip_libs, config.include_writable_code] :
       /\ enumRes' = res
       /\ try_regions(res)
  /\ now' = clock
  /\ clock' = clock + 1
  /\ enumCalls' = enumCalls + 1
  /\ StartIteration
  /\ UNCHANGED <<w, pruned, module, vm, pos, info, out, config, region_hashes, mem>>

\* loop top, first arm: now = Instant::now(); regions = get_all_regions(..)?
\* (the enumeration takes one clock tick)
Enumerate ==
  /\ pc = "loop" /\ iter < MaxIter
  /\ (~config.search_once \/ DOMAIN region_hashes = {})
  /\ \E res \in KernelOutcomes[config.skip_libs, config.include_writable_code] :
       /\ enumRes' = res
       /\ try_regions(res)
  /\ now' = clock
  /\ clock' = clock + 1
  /\ enumCalls' = enumCalls + 1
  /\ StartIteration
  /\ UNCHANGED <<w, pruned, module, vm, pos, info, out, config, region_hashes, mem>>

\* loop top, second arm: regions = region_hashes.keys().cloned().collect()
ReuseKeys ==
  /\ pc = "loop" /\ iter < MaxIter
  /\ ~(~config.search_once \/ DOMAIN region_hashes = {})
  /\ \E order \in KeyOrders(region_hashes) :
       /\ regions' = order
       /\ cands' = order
  /\ now' = clock
  /\ pc' = "hash"
  /\ StartIteration
  /\ UNCHANGED <<w, pruned, module, vm, pos, info, out, config, clock, region_hashes, mem, result, enumCalls, enumRes>>

\* history of one compute_hash call
NoteHash(region) ==
  hashed' = Append(hashed, [region |-> region, hash |-> compute_hash(region, mem),
                            bytes |-> slice_of(region, mem)])

\* a slip: the callback is told of a new region too
AddNewReported ==
  /\ pc = "hash" /\ regions # <<>>
  /\ Head(regions) \notin DOMAIN region_hashes
  /\ LET region == Head(regions)
         hash == compute_hash(region, mem)
     IN /\ region_hashes' = (region :> RegionHash(hash, now)) @@ region_hashes
        /\ cbs' = Append(cbs, MemoryError(region, hash, hash, now))
        /\ NoteHash(region)
  /\ regions' = Tail(regions)
  /\ UNCHANGED <<w, pruned, module, vm, pos, info, out, config, pc, clock, now, mem, result, iter, cands,
                 prevTracked, prevNow, prevHashed, enumCalls, enumRes>>

\* a slip: a region that comes back is compared with its pruned entry
AddNewRemembers ==
  /\ pc = "hash" /\ regions # <<>>
  /\ Head(regions) \notin DOMAIN region_hashes
  /\ LET region == Head(regions)
         hash == compute_hash(region, mem)
     IN /\ region_hashes' = (region :> RegionHash(hash, now)) @@ region_hashes
        /\ cbs' = IF region \in DOMAIN pruned /\ pruned[region].hash # hash
                  THEN Append(cbs, MemoryError(region, pruned[region].hash, hash,
                                               pruned[region].computed_at))
                  ELSE cbs
        /\ NoteHash(region)
  /\ regions' = Tail(regions)
  /\ UNCHANGED <<w, pruned, module, vm, pos, info, out, config, pc, clock, now, mem, result, iter, cands,
                 prevTracked, prevNow, prevHashed, enumCalls, enumRes>>

\* loop body, None arm: add regions that are new
AddNew ==
  /\ pc = "hash" /\ regions # <<>>
  /\ Head(regions) \notin DOMAIN region_hashes
  /\ LET region == Head(regions)
         hash == compute_hash(region, mem)
     IN /\ region_hashes' = (region :> RegionHash(hash, now)) @@ region_hashes
        /\ NoteHash(region)
  /\ regions' = Tail(regions)
  /\ UNCHANGED <<w, pruned, module, vm, pos, info, out, config, pc, clock, now, mem, result, iter, cands, cbs,
                 prevTracked, prevNow, prevHashed, enumCalls, enumRes>>

\* a slip: the entry keeps the old hash after a change was reported
CheckKnownStale ==
  /\ pc = "hash" /\ regions # <<>>
  /\ Head(regions) \in DOMAIN region_hashes
  /\ LET region == Head(regions)
         hash == compute_hash(region, mem)
         entry == region_hashes[region]
     IN /\ NoteHash(region)
        /\ cbs' = IF entry.hash # hash
                  THEN Append(cbs, MemoryError(region, entry.hash, hash, entry.computed_at))
                  ELSE cbs
        /\ region_hashes' = [region_hashes EXCEPT ![region] = RegionHash(entry.hash, now)]
  /\ regions' = Tail(regions)
  /\ UNCHANGED <<w, pruned, module, vm, pos, info, out, config, pc, clock, now, mem, result, iter, cands,
                 prevTracked, prevNow, prevHashed, enumCalls, enumRes>>

\* a slip: the timestamp of a known region is not refreshed
CheckKnownKeepsTime ==
  /\ pc = "hash" /\ regions # <<>>
  /\ Head(regions) \in DOMAIN region_hashes
  /\ LET region == Head(regions)
         hash == compute_hash(region, mem)
         entry == region_hashes[region]
     IN /\ NoteHash(region)
        /\ cbs' = IF entry.hash # hash
                  THEN Append(cbs, MemoryError(region, entry.hash, hash, entry.computed_at))
                  ELSE cbs
        /\ region_hashes' = [region_hashes EXCEPT
                               ![region] = RegionHash(hash, entry.computed_at)]
  /\ regions' = Tail(regions)
  /\ UNCHANGED <<w, pruned, module, vm, pos, info, out, config, pc, clock, now, mem, result, iter, cands,
                 prevTracked, prevNow, prevHashed, enumCalls, enumRes>>

\* a slip: the entry is updated before the callback is told of it
CheckKnownUpdatedFirst ==
  /\ pc = "hash" /\ regions # <<>>
  /\ Head(regions) \in DOMAIN region_hashes
  /\ LET region == Head(regions)
         hash == compute_hash(region, mem)
         entry == region_hashes[region]
     IN /\ NoteHash(region)
        /\ cbs' = IF entry.hash # hash
                  THEN Append(cbs, MemoryError(region, hash, hash, now))
                  ELSE cbs
        /\ region_hashes' = [region_hashes EXCEPT ![region] = RegionHash(hash, now)]
  /\ regions' = Tail(regions)
  /\ UNCHANGED <<w, pruned, module, vm, pos, info, out, config, pc, clock, now, mem, result, iter, cands,
                 prevTracked, prevNow, prevHashed, enumCalls, enumRes>>

\* a slip: the callback is told of every known region, changed or not
CheckKnownAlwaysReports ==
  /\ pc = "hash" /\ regions # <<>>
  /\ Head(regions) \in DOMAIN region_hashes
  /\ LET region == Head(regions)
         hash == compute_hash(region, mem)
         entry == region_hashes[region]
     IN /\ NoteHash(region)
        /\ cbs' = Append(cbs, MemoryError(region, entry.hash, hash, entry.computed_at))
        /\ region_hashes' = [region_hashes EXCEPT ![region] = RegionHash(hash, now)]
  /\ regions' = Tail(regions)
  /\ UNCHANGED <<w, pruned, module, vm, pos, info, out, config, pc, clock, now, mem, result, iter, cands,
                 prevTracked, prevNow, prevHashed, enumCalls, enumRes>>

\* loop body, Some(entry) arm: check if known region is unchanged; the
\* callback returns after some time, or panics and unwinds run
CheckKnown ==
  /\ pc = "hash" /\ regions # <<>>
  /\ Head(regions) \in DOMAIN region_hashes
  /\ LET region == Head(regions)
         hash == compute_hash(region, mem)
         entry == region_hashes[region]
     IN /\ NoteHash(region)
        /\ IF entry.hash # hash
           THEN /\ cbs' = Append(cbs, MemoryError(region, entry.hash, hash, entry.computed_at))
                /\ \/ /\ \E dt \in 0..1 : clock' = clock + dt
                      /\ region_hashes' = [region_hashes EXCEPT ![region] = RegionHash(hash, now)]
                      /\ regions' = Tail(regions)
                      /\ UNCHANGED <<pc, result>>
                   \/ /\ pc' = "panicked"
                      /\ result' = Panicked("error_callback")
                      /\ UNCHANGED <<clock, region_hashes, regions>>
           ELSE /\ region_hashes' = [region_hashes EXCEPT ![region] = RegionHash(hash, now)]
                /\ regions' = Tail(regions)
                /\ UNCHANGED <<cbs, clock, pc, result>>
  /\ UNCHANGED <<w, pruned, module, vm, pos, info, out, config, now, mem, iter, cands,
                 prevTracked, prevNow, prevHashed, enumCalls, enumRes>>

\* a slip: nothing is removed
retain_all(map, t) == map

\* region_hashes.retain(|_k, v| v.computed_at == now)
retain(map, t) ==
  [r \in {k \in DOMAIN map : map[k].computed_at = t} |-> map[r]]

\* after the for loop: remove all regions that disappeared
Prune ==
  /\ pc = "hash" /\ regions = <<>>
  /\ region_hashes' = retain(region_hashes, now)
  /\ pruned' = [r \in DOMAIN pruned \cup (DOMAIN region_hashes \ DOMAIN region_hashes') |->
                  IF r \in DOMAIN region_hashes \ DOMAIN region_hashes'
                  THEN region_hashes[r] ELSE pruned[r]]
  /\ pc' = "sleep"
  /\ UNCHANGED <<w, module, vm, pos, info, out, config, clock, now, regions, mem, result, iter, cands, cbs,
                 hashed, prevTracked, prevNow, prevHashed, enumCalls, enumRes>>

\* Duration - Duration: checked_sub(..).expect("overflow when subtracting durations")
duration_sub(a, b) ==
  IF b > a THEN [ok |-> FALSE, val |-> 0] ELSE [ok |-> TRUE, val |-> a - b]

\* sleep_duration = check_period - now.elapsed(); thread::sleep(sleep_duration)
Sleep ==
  /\ pc = "sleep"
  /\ LET sleep_duration == duration_sub(config.check_period, clock - now)
     IN IF sleep_duration.ok
        THEN /\ clock' = clock + sleep_duration.val
             /\ pc' = "loop"
             /\ result' = result
             /\ EndIteration
        ELSE /\ pc' = "panicked"
             /\ result' = Panicked("overflow when subtracting durations")
             /\ clock' = clock
             /\ UNCHANGED <<cands, cbs, prevTracked, prevNow, prevHashed>>
  /\ UNCHANGED <<w, pruned, module, vm, pos, info, out, config, now, regions, region_hashes, mem, iter,
                 hashed, enumCalls, enumRes>>

\* the environment: a byte of the process's memory changes, at any time
Mutate ==
  /\ pc \in Live
  /\ \E a \in MemAddrs, b \in Bytes :
       /\ b # mem[a]
       /\ mem' = [mem EXCEPT ![a] = b]
  /\ UNCHANGED <<w, pruned, module, vm, pos, info, out, config, pc, clock, now, regions, region_hashes, result,
                 iter, cands, cbs, hashed, prevTracked, prevNow, prevHashed,
                 enumCalls, enumRes>>

Init ==
  /\ w = NoEnv
  /\ out = NoCall
  /\ config \in Configs
  /\ pc = "loop"
  /\ clock = 0 /\ now = 0
  /\ regions = <<>> /\ region_hashes = EmptyMap
  /\ mem = [a \in MemAddrs |-> 0]
  /\ result = NoResult
  /\ iter = 0 /\ cands = <<>> /\ cbs = <<>> /\ hashed = <<>>
  /\ prevTracked = EmptyMap /\ prevNow = 0 /\ prevHashed = <<>>
  /\ enumCalls = 0 /\ enumRes = NoResult /\ pruned = EmptyMap
  /\ NoWalk

\* a step of run_checker
RunStep ==
  \/ Enumerate
  \/ ReuseKeys
  \/ AddNew
  \/ CheckKnown
  \/ Prune
  \/ Sleep

Next ==
  \/ RunStep
  \/ Mutate

Spec == Init /\ [][Next]_vars

\* ------------------------------------------------------------- run_benchmark
\* isize, of the width of usize
to_isize(x) ==
  LET m == x % (2 ^ UsizeBits)
  IN IF m >= 2 ^ (UsizeBits - 1) THEN m - 2 ^ UsizeBits ELSE m

\* r.end.offset_from(r.start)
offset_from(end, start) == to_isize(end - start)

\* a slip: the operands of offset_from are exchanged
RECURSIVE hashed_bytes_reversed(_, _, _)
hashed_bytes_reversed(rs, i, acc) ==
  IF i > Len(rs) THEN acc
  ELSE hashed_bytes_reversed(rs, i + 1, acc + offset_from(rs[i].start, rs[i].end))

\* regions.iter().map(|r| r.end.offset_from(r.start)).sum(), from region i on
RECURSIVE hashed_bytes(_, _, _)
hashed_bytes(rs, i, acc) ==
  IF i > Len(rs) THEN acc
  ELSE hashed_bytes(rs, i + 1, acc + offset_from(rs[i].end, rs[i].start))

\* struct BenchmarkResult
BenchmarkResult(scan_time, hash_time, bytes, rs) ==
  [kind |-> "Ok", err |-> "none", scan_time |-> scan_time, hash_time |-> hash_time,
   hashed_bytes |-> bytes, regions |-> rs]

\* a call of benchmark(): t0 (kept in now), get_all_regions(..)?, t1 (kept
\* in prevNow); the locals of an earlier call are gone
BenchEnumerate ==
  /\ pc \in {"bench", "bench_done"} /\ iter < MaxIter
  /\ \E res \in KernelOutcomes[config.skip_libs, config.include_writable_code] :
       /\ enumRes' = res
       /\ IF res.kind = "Ok"
          THEN /\ pc' = "bench_hash" /\ result' = NoResult
               /\ regions' = res.regions /\ cands' = res.regions
          ELSE /\ pc' = "bench_done" /\ result' = res
               /\ regions' = <<>> /\ cands' = <<>>
  /\ now' = clock
  /\ clock' = clock + 1
  /\ prevNow' = clock + 1
  /\ enumCalls' = enumCalls + 1
  /\ iter' = iter + 1
  /\ hashed' = <<>>
  /\ UNCHANGED <<w, pruned, module, vm, pos, info, out, config, region_hashes, mem, cbs, prevTracked, prevHashed>>

\* for region in &regions { let _ = region.compute_hash(); }
BenchHash ==
  /\ pc = "bench_hash" /\ Len(hashed) < Len(cands)
  /\ NoteHash(cands[Len(hashed) + 1])
  /\ regions' = Tail(regions)
  /\ \E dt \in 0..1 : clock' = clock + dt
  /\ UNCHANGED <<w, pruned, module, vm, pos, info, out, config, pc, now, region_hashes, mem, result, iter, cands, cbs,
                 prevTracked, prevNow, prevHashed, enumCalls, enumRes>>

\* t2, and Ok(BenchmarkResult {..})
BenchFinish ==
  /\ pc = "bench_hash" /\ Len(hashed) = Len(cands)
  /\ result' = BenchmarkResult(prevNow - now, clock - prevNow,
                               hashed_bytes(cands, 1, 0), cands)
  /\ pc' = "bench_done"
  /\ UNCHANGED <<w, pruned, module, vm, pos, info, out, config, clock, now, regions, region_hashes, mem, iter, cands,
                 cbs, hashed, prevTracked, prevNow, prevHashed, enumCalls, enumRes>>

InitBench ==
  /\ w = NoEnv
  /\ out = NoCall
  /\ config \in Configs
  /\ pc = "bench"
  /\ clock = 0 /\ now = 0
  /\ regions = <<>> /\ region_hashes = EmptyMap
  /\ mem \in [MemAddrs -> Bytes]
  /\ result = NoResult
  /\ iter = 0 /\ cands = <<>> /\ cbs = <<>> /\ hashed = <<>>
  /\ prevTracked = EmptyMap /\ prevNow = 0 /\ prevHashed = <<>>
  /\ enumCalls = 0 /\ enumRes = NoResult /\ pruned = EmptyMap
  /\ NoWalk

NextBench ==
  \/ BenchEnumerate
  \/ BenchHash
  \/ BenchFinish

SpecBench == InitBench /\ [][NextBench]_vars

\* ------------------------------------------------------------- the Windows page walker
\* PAGE_PROTECTION_FLAGS of windows::Win32::System::Memory
PAGE_EXECUTE_READ == 32
PAGE_EXECUTE_READWRITE == 64
PAGE_EXECUTE_WRITECOPY == 128

\* Protect as VirtualQuery reports it: 0 (no access: a free or reserved
\* range), PAGE_READWRITE (data) and the three above
ProtectValues ==
  {0, 4, PAGE_EXECUTE_READ, PAGE_EXECUTE_READWRITE, PAGE_EXECUTE_WRITECOPY}

\* BitOr for PAGE_PROTECTION_FLAGS: a | b
RECURSIVE bit_or(_, _)
bit_or(a, b) ==
  IF a = 0 THEN b
  ELSE IF b = 0 THEN a
  ELSE (IF a % 2 = 1 \/ b % 2 = 1 THEN 1 ELSE 0) + 2 * bit_or(a \div 2, b \div 2)

Min(a, b) == IF a <= b THEN a ELSE b

\* struct Module (the fields the walker reads)
Module(base_addr, base_size, exe_path) ==
  [base_addr |-> base_addr, base_size |-> base_size, exe_path |-> exe_path]

\* the modules of the address space: base_addr + base_size lies within it
Modules ==
  {m \in {Module(b, sz, AppPath) : b \in 0..(MaxAddr - 1), sz \in 0..MaxAddr} :
     m.base_addr + m.base_size <= MaxAddr}

RECURSIVE total_size(_)
total_size(segments) ==
  IF segments = <<>> THEN 0 ELSE Head(segments).size + total_size(Tail(segments))

\* the address space as runs of pages of one protection, each of non-zero
\* size, and the query that fails (0: none does)
Layouts ==
  {l \in SeqsUpTo([size : 1..MaxAddr, protect : ProtectValues], MaxAddr) :
     total_size(l) = MaxAddr}

Vms == {[segments |-> l, fail_at |-> f] : l \in Layouts, f \in {0, 2}}

\* VirtualQuery(pos, &mut info, ..): the run of pages that contains pos, or 0
\* (failure); n counts the queries
RECURSIVE find_segment(_, _, _, _)
find_segment(segments, i, base, p) ==
  IF i > Len(segments) THEN [ok |-> FALSE, info |-> NoInfo]
  ELSE IF p < base + segments[i].size
       THEN [ok |-> TRUE,
             info |-> [BaseAddress |-> base, RegionSize |-> segments[i].size,
                       Protect |-> segments[i].protect]]
       ELSE find_segment(segments, i + 1, base + segments[i].size, p)

VirtualQuery(space, p, n) ==
  IF space.fail_at = n THEN [ok |-> FALSE, info |-> NoInfo]
  ELSE find_segment(space.segments, 1, 0, p)

\* a slip: the segment's end is not clamped
segment_end_unclamped(inf, module_end) == inf.BaseAddress + inf.RegionSize

\* segment_end = info.BaseAddress.add(info.RegionSize).min(module_end)
segment_end(inf, module_end) == Min(inf.BaseAddress + inf.RegionSize, module_end)

\* the test that guards regions.push: `|` binds tighter than `==`
protect_selected(protect, include_writable_code) ==
  \/ bit_or(protect, PAGE_EXECUTE_READ) = PAGE_EXECUTE_READ
  \/ bit_or(protect, PAGE_EXECUTE_WRITECOPY) = PAGE_EXECUTE_WRITECOPY
  \/ (bit_or(protect, PAGE_EXECUTE_READWRITE) = PAGE_EXECUTE_READWRITE
        /\ include_writable_code)

\* a slip: the walk goes on at the module's end
walk_done_late(seg_end, module_end) == seg_end > module_end

\* if segment_end >= module_end { break; }
walk_done(seg_end, module_end) == seg_end >= module_end

\* one turn of the loop of Module::get_executable_regions
WalkQuery ==
  /\ pc = "walk"
  /\ iter' = iter + 1
  /\ LET module_end == module.base_addr + module.base_size
         q == VirtualQuery(vm, pos, iter + 1)
     IN IF ~q.ok
        THEN /\ pc' = "win_done"
             /\ result' = Err("SysCallError")
             /\ regions' = <<>>
             /\ UNCHANGED <<pos, info>>
        ELSE LET seg_end == segment_end(q.info, module_end)
                 pushed == IF protect_selected(q.info.Protect, config.include_writable_code)
                           THEN Append(regions, Region(pos, seg_end, module.exe_path))
                           ELSE regions
             IN /\ info' = q.info
                /\ regions' = pushed
                /\ IF walk_done(seg_end, module_end)
                   THEN /\ pc' = "win_done"
                        /\ result' = Ok(pushed)
                        /\ pos' = pos
                   ELSE /\ pc' = "walk"
                        /\ result' = result
                        /\ pos' = seg_end
  /\ UNCHANGED <<w, pruned, out, config, clock, now, region_hashes, mem, cands, cbs, hashed,
                 prevTracked, prevNow, prevHashed, enumCalls, enumRes, module, vm>>

\* Module::get_executable_regions was entered: module_end, pos = base_addr
InitWin ==
  /\ w = NoEnv
  /\ out = NoCall
  /\ \E b \in BOOLEAN : config = [new_config EXCEPT !.include_writable_code = b]
  /\ pc = "walk"
  /\ clock = 0 /\ now = 0
  /\ regions = <<>> /\ region_hashes = EmptyMap
  /\ mem = [a \in MemAddrs |-> 0]
  /\ result = NoResult
  /\ iter = 0 /\ cands = <<>> /\ cbs = <<>> /\ hashed = <<>>
  /\ prevTracked = EmptyMap /\ prevNow = 0 /\ prevHashed = <<>>
  /\ enumCalls = 0 /\ enumRes = NoResult /\ pruned = EmptyMap
  /\ module \in Modules
  /\ vm \in Vms
  /\ pos = module.base_addr
  /\ info = NoInfo

NextWin == WalkQuery

SpecWin == InitWin /\ [][NextWin]_vars

\* the scheduler runs the walker's thread
SpecWinLive == SpecWin /\ WF_vars(WalkQuery)

\* ------------------------------------------------------------- the builder
\* a slip: the setter starts from a fresh configuration
set_skip_libs_afresh(b) ==
  /\ pc = "build"
  /\ config' = [new_config EXCEPT !.skip_libs = b]
  /\ UNCHANGED <<w, pruned, module, vm, pos, info, out, pc, clock, now, regions, region_hashes, mem, result,
                 iter, cands, cbs, hashed, prevTracked, prevNow, prevHashed,
                 enumCalls, enumRes>>

\* ProcessConsistencyChecker::search_once
set_search_once(b) ==
  /\ pc = "build"
  /\ config' = [config EXCEPT !.search_once = b]
  /\ UNCHANGED <<w, pruned, module, vm, pos, info, out, pc, clock, now, regions, region_hashes, mem, result,
                 iter, cands, cbs, hashed, prevTracked, prevNow, prevHashed,
                 enumCalls, enumRes>>

\* ProcessConsistencyChecker::skip_libs
set_skip_libs(b) ==
  /\ pc = "build"
  /\ config' = [config EXCEPT !.skip_libs = b]
  /\ UNCHANGED <<w, pruned, module, vm, pos, info, out, pc, clock, now, regions, region_hashes, mem, result,
                 iter, cands, cbs, hashed, prevTracked, prevNow, prevHashed,
                 enumCalls, enumRes>>

\* ProcessConsistencyChecker::check_period
set_check_period(d) ==
  /\ pc = "build"
  /\ config' = [config EXCEPT !.check_period = d]
  /\ UNCHANGED <<w, pruned, module, vm, pos, info, out, pc, clock, now, regions, region_hashes, mem, result,
                 iter, cands, cbs, hashed, prevTracked, prevNow, prevHashed,
                 enumCalls, enumRes>>

\* ProcessConsistencyChecker::include_writable_code
set_include_writable_code(b) ==
  /\ pc = "build"
  /\ config' = [config EXCEPT !.include_writable_code = b]
  /\ UNCHANGED <<w, pruned, module, vm, pos, info, out, pc, clock, now, regions, region_hashes, mem, result,
                 iter, cands, cbs, hashed, prevTracked, prevNow, prevHashed,
                 enumCalls, enumRes>>

\* ProcessConsistencyChecker::run: run_checker(&self.config, error_callback)
run ==
  /\ pc = "build"
  /\ pc' = "loop"
  /\ UNCHANGED <<w, pruned, module, vm, pos, info, out, config, clock, now, regions, region_hashes, mem, result,
                 iter, cands, cbs, hashed, prevTracked, prevNow, prevHashed,
                 enumCalls, enumRes>>

\* ProcessConsistencyChecker::benchmark: run_benchmark(&self.config)
benchmark ==
  /\ pc = "build"
  /\ pc' = "bench"
  /\ UNCHANGED <<w, pruned, module, vm, pos, info, out, config, clock, now, regions, region_hashes, mem, result,
                 iter, cands, cbs, hashed, prevTracked, prevNow, prevHashed,
                 enumCalls, enumRes>>

\* the state after ProcessConsistencyChecker::new()
InitBuild ==
  /\ w = NoEnv
  /\ out = NoCall
  /\ config = new_config
  /\ pc = "build"
  /\ clock = 0 /\ now = 0
  /\ regions = <<>> /\ region_hashes = EmptyMap
  /\ mem = [a \in MemAddrs |-> 0]
  /\ result = NoResult
  /\ iter = 0 /\ cands = <<>> /\ cbs = <<>> /\ hashed = <<>>
  /\ prevTracked = EmptyMap /\ prevNow = 0 /\ prevHashed = <<>>
  /\ enumCalls = 0 /\ enumRes = NoResult /\ pruned = EmptyMap
  /\ NoWalk

\* a call of a setter
BuildStep ==
  \/ \E b \in BOOLEAN : set_search_once(b)
  \/ \E b \in BOOLEAN : set_skip_libs(b)
  \/ \E d \in 0..MaxPeriod : set_check_period(d)
  \/ \E b \in BOOLEAN : set_include_writable_code(b)

NextBuild ==
  \/ BuildStep
  \/ run
  \/ benchmark
  \/ RunStep
  \/ Mutate
  \/ NextBench

SpecBuild == InitBuild /\ [][NextBuild]_vars

\* ------------------------------------------------------------- claims on the enumerator
\* the same call with skip_libs off / include_writable_code off
WithLibs == get_all_regions(w, FALSE, out.include_writable_code)
ReadOnlyCode == get_all_regions(w, out.skip_libs, FALSE)

\* C8: whenever enumerate(skip_libs=true) succeeds, every region it yields has
\* the process's own executable as its source, and its result is a subset of
\* (and no longer than) that of enumerate(skip_libs=false) in the same mapping
\* state, whatever current_exe() returned.
C8_SkipLibsYieldsOnlyOwnExecutable ==
  (out.called /\ out.skip_libs /\ out.res.kind = "Ok") =>
    /\ \A r \in Range(out.res.regions) : path_eq(r.source, AppPath)
    /\ Range(out.res.regions) \subseteq Range(WithLibs.regions)
    /\ Len(out.res.regions) <= Len(WithLibs.regions)

\* C9: in the same mapping state and with the same skip_libs, enumerate with
\* include_writable_code=true yields every region that enumerate with
\* include_writable_code=false yields (region count >=), an error yielding no
\* region.
C9_WritableCodeYieldsSuperset ==
  (out.called /\ out.include_writable_code) =>
    /\ Range(ReadOnlyCode.regions) \subseteq Range(out.res.regions)
    /\ Len(ReadOnlyCode.regions) <= Len(out.res.regions)

\* the fields of line k of the mapping state
FieldsOf(k) == split_whitespace(w.lines[k])

\* a range field that is no pair of hexadecimal numbers joined by "-"
BadRange(field) ==
  LET dash == {i \in 1..Len(field) : field[i] = "-"}
  IN \/ dash = {}
     \/ LET i == CHOOSE j \in dash : \A k \in dash : j <= k
        IN \/ ~from_str_radix(SubSeq(field, 1, i - 1)).ok
           \/ ~from_str_radix(SubSeq(field, i + 1, Len(field))).ok

\* a line that does not have the expected structure
Malformed(k) ==
  \/ Len(FieldsOf(k)) < 6
  \/ BadRange(FieldsOf(k)[1])

\* a line whose permission field asks for it
Wanted(k, include_writable_code) ==
  /\ Len(FieldsOf(k)) >= 2
  /\ LET perms == FieldsOf(k)[2]
     IN /\ Len(perms) >= 3
        /\ \/ SubSeq(perms, 1, 3) = <<"r", "-", "x">>
           \/ (include_writable_code /\ SubSeq(perms, 1, 3) = <<"r", "w", "x">>)

\* the lines at which a scan that reads every line stops
StopLines(include_writable_code) ==
  {k \in 1..Len(w.lines) :
     \/ Len(FieldsOf(k)) < 2
     \/ (Wanted(k, include_writable_code) /\ Malformed(k))}

C16_RegionEndsAfterStart ==
  (out.called /\ out.res.kind = "Ok") =>
    \A i \in DOMAIN out.res.regions : out.res.regions[i].end >= out.res.regions[i].start

ReportsOf(r) == {j \in DOMAIN cbs : cbs[j].region = r}

\* inside an iteration (its history is complete up to the current step)
InIteration == pc \in {"hash", "sleep", "panicked"}

\* C1: a candidate region that is not in the tracked-state map when it is
\* processed is inserted with the fingerprint just computed and the
\* iteration's timestamp, and the callback is not invoked for it; no callback
\* is invoked in the first iteration.
C1_FirstObservationIsSilent ==
  InIteration =>
    /\ iter = 1 => cbs = <<>>
    /\ \A i \in DOMAIN hashed :
         LET r == hashed[i].region
         IN r \notin DOMAIN prevTracked =>
              /\ ReportsOf(r) = {}
              /\ r \in DOMAIN region_hashes
              /\ region_hashes[r] = RegionHash(hashed[i].hash, now)

\* C1 witness: in a later iteration, with regions already tracked, a region
\* is seen for the first time and the iteration completes
C1_Witness ==
  /\ pc = "sleep" /\ iter >= 2 /\ DOMAIN prevTracked # {}
  /\ \E i \in DOMAIN hashed : hashed[i].region \notin DOMAIN prevTracked

\* C2: for a region that was a candidate in the iteration before and is one
\* in this iteration: if the two fingerprints differ the callback is invoked
\* exactly once for it in this iteration, with the fingerprint stored by the
\* iteration before as old_hash (different from new_hash, the one just
\* computed) and that iteration's timestamp as old_hash_computed_at; if the
\* bytes read are the same as in the iteration before, no callback is invoked.
C2_MutationIsReportedOnce ==
  InIteration =>
    \A i \in DOMAIN hashed :
      LET r == hashed[i].region
      IN r \in DOMAIN prevTracked =>
           /\ \E j \in DOMAIN prevHashed :
                /\ prevHashed[j].region = r
                /\ prevHashed[j].hash = prevTracked[r].hash
           /\ IF hashed[i].hash # prevTracked[r].hash
              THEN /\ Cardinality(ReportsOf(r)) = 1
                   /\ \A j \in ReportsOf(r) :
                        /\ cbs[j] = MemoryError(r, prevTracked[r].hash, hashed[i].hash, prevNow)
                        /\ cbs[j].old_hash # cbs[j].new_hash
              ELSE ReportsOf(r) = {}
           /\ \A j \in DOMAIN prevHashed :
                (prevHashed[j].region = r /\ prevHashed[j].bytes = hashed[i].bytes)
                  => ReportsOf(r) = {}

\* C2 witness: an iteration that reported a changed region and completed,
\* while another region was read unchanged
C2_Witness ==
  /\ pc = "sleep" /\ Len(cbs) = 1 /\ Len(hashed) = 2
  /\ cbs[1].old_hash # cbs[1].new_hash
  /\ cbs[1].old_hash_computed_at = prevNow

\* C3: a region tracked when the iteration before ended and not among this
\* iteration's candidates has no entry after the prune step, and no callback
\* was invoked for it.
C3_DisappearedRegionIsPruned ==
  pc = "sleep" =>
    \A r \in DOMAIN prevTracked :
      r \notin Range(cands) =>
        /\ r \notin DOMAIN region_hashes
        /\ ReportsOf(r) = {}

\* C3 witness: after a prune step, a region that was tracked and is no
\* candidate any more, beside one that still is
C3_Witness ==
  /\ pc = "sleep"
  /\ \E r \in DOMAIN prevTracked : r \notin Range(cands)
  /\ \E r \in DOMAIN prevTracked : r \in Range(cands)

\* C4: at the end of every iteration the sleep duration is
\* max(0, check_period - elapsed): the subtraction does not fail and the loop
\* goes on to the next iteration.
C4_SleepIsClamped ==
  [][(pc = "sleep" /\ pc' # "sleep") =>
       /\ pc' = "loop"
       /\ clock' = clock + Max(0, config.check_period - (clock - now))]_vars

\* C5: when the enumerator returns an error, run has returned that error: in
\* that iteration no region was fingerprinted, no callback was invoked, the
\* tracked-state map is as the iteration found it, and run takes no further
\* step (no retry, no later iteration).
C5_EnumerationErrorIsReturned ==
  enumRes.kind = "Err" =>
    /\ pc = "returned"
    /\ result = enumRes
    /\ hashed = <<>> /\ cbs = <<>>
    /\ region_hashes = prevTracked
    /\ ~ENABLED RunStep

\* C5 witness: run returned an error in a later iteration, with regions tracked
C5_Witness ==
  /\ pc = "returned" /\ iter >= 2 /\ DOMAIN region_hashes # {}
  /\ enumCalls = iter

\* C6: run is in its loop, whatever check_period, the regions and the time
\* the callback takes, unless it has stopped, and then by returning the
\* enumerator's error (or by unwinding a panic of the caller's callback).
C6_RunStopsOnlyOnEnumerationError ==
  \/ pc \in Live
  \/ (pc = "returned" /\ result.kind = "Err" /\ result = enumRes)
  \/ (pc = "panicked" /\ result = Panicked("error_callback"))

\* C7: with search_once set, the enumerator is called in the first iteration
\* only, and in every later iteration the candidates are the regions of the
\* tracked-state map.
C7_SearchOnceEnumeratesOnce ==
  (config.search_once /\ iter >= 2) =>
    /\ enumCalls = 1
    /\ pc # "loop" => Range(cands) = DOMAIN prevTracked

\* C14: after the prune step of an iteration, the keys of the tracked-state
\* map are exactly the iteration's candidates, and every entry holds the
\* iteration's timestamp and the fingerprint computed for its region in this
\* iteration.
C14_TrackedMapMirrorsCandidates ==
  pc = "sleep" =>
    /\ DOMAIN region_hashes = Range(cands)
    /\ \A r \in DOMAIN region_hashes :
         /\ region_hashes[r].computed_at = now
         /\ \E i \in DOMAIN hashed : hashed[i].region = r
         /\ \A i \in DOMAIN hashed :
              hashed[i].region = r => hashed[i].hash = region_hashes[r].hash

\* C14 witness: a later iteration ended with two regions tracked, one of
\* them with a fingerprint other than the one it had when the iteration began
C14_Witness ==
  /\ pc = "sleep" /\ iter >= 2
  /\ Cardinality(DOMAIN region_hashes) = 2
  /\ \E r \in DOMAIN region_hashes :
       r \in DOMAIN prevTracked /\ prevTracked[r].hash # region_hashes[r].hash

\* C15: for a candidate that is tracked, the callback (invoked when the
\* fingerprints differ) gets the entry as it was before the update: the
\* previous fingerprint and the previous timestamp; a callback that does not
\* return leaves the entry as it was; and whether or not the fingerprints
\* differ, the entry is then set to the fingerprint just computed and the
\* iteration's timestamp.
C15_CallbackSeesEntryBeforeUpdate ==
  [][(pc = "hash" /\ regions # <<>> /\ Head(regions) \in DOMAIN region_hashes
        /\ hashed' # hashed) =>
       LET r == Head(regions)
           old == region_hashes[r]
           h == compute_hash(r, mem)
       IN /\ IF old.hash # h
             THEN cbs' = Append(cbs, MemoryError(r, old.hash, h, old.computed_at))
             ELSE cbs' = cbs /\ pc' = "hash"
          /\ pc' = "hash" =>
               region_hashes' = [region_hashes EXCEPT ![r] = RegionHash(h, now)]
          /\ pc' # "hash" =>
               /\ pc' = "panicked"
               /\ region_hashes' = region_hashes]_vars

\* C15 witness: a callback has returned; it was told of an older timestamp
\* and the entry now holds the new fingerprint and this iteration's timestamp
C15_Witness ==
  /\ pc = "hash" /\ cbs # <<>>
  /\ LET e == cbs[Len(cbs)]
     IN /\ e.old_hash # e.new_hash
        /\ e.old_hash_computed_at < now
        /\ e.region \in DOMAIN region_hashes
        /\ region_hashes[e.region] = RegionHash(e.new_hash, now)

\* C20: a region that was tracked, was pruned when it was no candidate, and
\* is a candidate again is treated as new: no callback is invoked for it,
\* even when its fingerprint is not the one its old entry held, and it is
\* inserted with the fingerprint just computed and the iteration's timestamp.
C20_ReappearanceIsFirstObservation ==
  InIteration =>
    \A i \in DOMAIN hashed :
      LET r == hashed[i].region
      IN (r \in DOMAIN pruned /\ r \notin DOMAIN prevTracked) =>
           /\ ReportsOf(r) = {}
           /\ r \in DOMAIN region_hashes
           /\ region_hashes[r] = RegionHash(hashed[i].hash, now)

\* C20 witness: an iteration ended in which a region pruned before the
\* iteration before came back with another fingerprint
C20_Witness ==
  /\ pc = "sleep" /\ iter >= 3
  /\ \E r \in DOMAIN pruned :
       /\ r \notin DOMAIN prevTracked
       /\ r \in DOMAIN region_hashes
       /\ region_hashes[r].hash # pruned[r].hash
       /\ pruned[r].computed_at < prevNow

\* C21: with search_once set, once an enumeration has returned a non-empty
\* list, the keys of the tracked-state map at the end of every later iteration
\* are the regions of that list: the mapping table is not read again, so no
\* region is added, none is pruned, and run cannot end with an error or a
\* panic of the enumerator.
C21_SearchOnceKeysAreStable ==
  /\ []((config.search_once /\ enumRes.kind = "Ok" /\ enumRes.regions # <<>>
          /\ pc \in {"sleep", "loop"}) =>
         /\ DOMAIN region_hashes = Range(enumRes.regions)
         /\ pruned = EmptyMap)
  /\ [][(config.search_once /\ enumRes.kind = "Ok" /\ enumRes.regions # <<>>) =>
          /\ enumRes' = enumRes
          /\ enumCalls' = enumCalls
          /\ pruned' = pruned
          /\ pc' # "returned"
          /\ pc' = "panicked" =>
               result' \in {Panicked("error_callback"),
                            Panicked("overflow when subtracting durations")}]_vars

\* C21 witness: an iteration that took the keys of the map as its candidates
\* has ended, after a first enumeration that found nothing and a second that
\* found two regions
C21_Witness ==
  /\ config.search_once
  /\ pc = "sleep" /\ iter >= 3 /\ enumCalls = 2
  /\ Cardinality(DOMAIN region_hashes) = 2
  /\ DOMAIN prevTracked = DOMAIN region_hashes

\* C22: no false positives. A callback of an iteration names a region that
\* was tracked when the iteration began, with the fingerprint stored then as
\* old_hash and a different fingerprint, the one computed in this iteration,
\* as new_hash; a tracked region whose bytes are the ones hashed in the
\* iteration before is not reported; and when no candidate occurs twice the
\* callbacks of an iteration are at most as many as the regions tracked at
\* its start.
C22_NoFalsePositives ==
  InIteration =>
    /\ \A j \in DOMAIN cbs :
         LET e == cbs[j]
         IN /\ e.region \in DOMAIN prevTracked
            /\ e.old_hash = prevTracked[e.region].hash
            /\ e.old_hash_computed_at = prevTracked[e.region].computed_at
            /\ e.new_hash # e.old_hash
            /\ \E i \in DOMAIN hashed :
                 hashed[i].region = e.region /\ hashed[i].hash = e.new_hash
    /\ \A i \in DOMAIN hashed : \A k \in DOMAIN prevHashed :
         (hashed[i].region = prevHashed[k].region /\ hashed[i].bytes = prevHashed[k].bytes)
           => ReportsOf(hashed[i].region) = {}
    /\ (\A i \in DOMAIN hashed : \A k \in DOMAIN prevHashed :
          hashed[i].region = prevHashed[k].region => hashed[i].bytes = prevHashed[k].bytes)
         => cbs = <<>>
    /\ Cardinality(Range(cands)) = Len(cands) =>
         Len(cbs) <= Cardinality(DOMAIN prevTracked)

\* C22 witness: an iteration that began with two tracked regions has ended;
\* one of them, with changed bytes, was reported and the other, hashed again
\* over the same bytes, was not
C22_Witness ==
  /\ pc = "sleep" /\ iter >= 2
  /\ Cardinality(DOMAIN prevTracked) = 2
  /\ Len(cbs) = 1
  /\ \E i \in DOMAIN hashed : \E k \in DOMAIN prevHashed :
       /\ hashed[i].region = prevHashed[k].region
       /\ hashed[i].bytes = prevHashed[k].bytes
       /\ hashed[i].region # cbs[1].region

\* ------------------------------------------------------------- claims on the builder
\* C12: new() yields search_once=false, skip_libs=false, check_period=1s,
\* include_writable_code=false; each setter sets its own option to its
\* argument and leaves the other three as they were; no step of run or of
\* benchmark changes the configuration.
C12_ConfigurationIsFramed ==
  /\ config = [search_once |-> FALSE, skip_libs |-> FALSE, check_period |-> DefaultPeriod,
               include_writable_code |-> FALSE]
  /\ [][/\ \A b \in BOOLEAN :
            set_search_once(b) =>
              /\ config'.search_once = b
              /\ config'.skip_libs = config.skip_libs
              /\ config'.check_period = config.check_period
              /\ config'.include_writable_code = config.include_writable_code
        /\ \A b \in BOOLEAN :
            set_skip_libs(b) =>
              /\ config'.skip_libs = b
              /\ config'.search_once = config.search_once
              /\ config'.check_period = config.check_period
              /\ config'.include_writable_code = config.include_writable_code
        /\ \A d \in 0..MaxPeriod :
            set_check_period(d) =>
              /\ config'.check_period = d
              /\ config'.search_once = config.search_once
              /\ config'.skip_libs = config.skip_libs
              /\ config'.include_writable_code = config.include_writable_code
        /\ \A b \in BOOLEAN :
            set_include_writable_code(b) =>
              /\ config'.include_writable_code = b
              /\ config'.search_once = config.search_once
              /\ config'.skip_libs = config.skip_libs
              /\ config'.check_period = config.check_period
        /\ pc # "build" => config' = config]_vars

\* C12 witness: run is in a later iteration under a configuration in which
\* every option was set away from its default
C12_Witness ==
  /\ pc = "sleep" /\ iter >= 2
  /\ config = [search_once |-> TRUE, skip_libs |-> TRUE, check_period |-> MaxPeriod,
               include_writable_code |-> TRUE]

\* ------------------------------------------------------------- claims on the page walker
ModuleEnd == module.base_addr + module.base_size

\* the step is a turn of the walker's loop whose query succeeded
QuerySucceeded == pc = "walk" /\ iter' = iter + 1 /\ result'.kind # "Err"

\* the protection values the walker is to emit
EmittedProtections ==
  {PAGE_EXECUTE_READ, PAGE_EXECUTE_WRITECOPY}
    \cup (IF config.include_writable_code THEN {PAGE_EXECUTE_READWRITE} ELSE {})

\* C13: the page walker emits a Region for a queried segment if and only if
\* the segment's protection is PAGE_EXECUTE_READ, PAGE_EXECUTE_WRITECOPY or,
\* with include_writable_code, PAGE_EXECUTE_READWRITE; a segment of any other
\* protection (0 included) is not emitted.
C13_OnlyExecutableSegmentsAreEmitted ==
  [][QuerySucceeded =>
       ((regions' # regions) <=> (info'.Protect \in EmittedProtections))]_vars

\* the regions emitted so far lie inside the module, in ascending order and
\* disjoint
RegionsInsideModule ==
  \A i \in DOMAIN regions :
    /\ module.base_addr <= regions[i].start
    /\ regions[i].start <= regions[i].end
    /\ regions[i].end <= ModuleEnd
    /\ \A j \in DOMAIN regions :
         i < j => /\ regions[i].end <= regions[j].start
                  /\ regions[i].start < regions[j].start

RegionsNonEmpty == \A i \in DOMAIN regions : regions[i].start < regions[i].end

\* a region pushed by the step starts at the walker's position and ends at
\* the queried segment's end clamped to the module's end
PushedAtPosition ==
  (QuerySucceeded /\ regions' # regions) =>
    regions' = Append(regions,
                      Region(pos, Min(info'.BaseAddress + info'.RegionSize, ModuleEnd),
                             module.exe_path))

\* C17: for a module of base b and size s >= 0, every region the walker emits
\* is non-empty and inside the module (b <= start < end <= b+s), the regions
\* are ascending and disjoint, and each starts at the walker's position and
\* ends at the segment's end clamped to b+s.
C17_RegionsAreNonEmptyInsideModule ==
  [][pc = "walk" => /\ RegionsInsideModule'
                    /\ RegionsNonEmpty'
                    /\ PushedAtPosition]_vars

\* C17, amended: for a module of size s > 0 every emitted region is non-empty
\* and inside the module, ascending and disjoint, starting at the walker's
\* position and ending at the clamped segment end; for s = 0 the walker makes
\* one query and emits at most one region, the empty [b, b).
C17_RegionsAreInsideModule ==
  [][pc = "walk" => /\ RegionsInsideModule'
                    /\ (module.base_size > 0 => RegionsNonEmpty')
                    /\ (module.base_size = 0 => (Len(regions') <= 1 /\ pc' = "win_done"))
                    /\ PushedAtPosition]_vars

\* C17 witness: a walk that ended with two regions, the last one clamped to
\* the end of a module that ends inside a segment
C17_Witness ==
  /\ pc = "win_done" /\ result.kind = "Ok" /\ Len(result.regions) = 2
  /\ module.base_size > 0
  /\ info.BaseAddress + info.RegionSize > ModuleEnd
  /\ result.regions[2].end = ModuleEnd

\* C18: while every query succeeds the position strictly increases from one
\* query to the next and stays below the module's end, the walk ends with
\* the regions exactly when the clamped segment end reaches the module's end,
\* and it does end; a failing query ends it at once with a syscall error and
\* no regions.
C18_WalkTerminates ==
  /\ [][pc = "walk" =>
          IF pc' = "walk"
          THEN /\ vm.fail_at # iter'
               /\ pos' > pos /\ pos' < ModuleEnd
          ELSE /\ pc' = "win_done"
               /\ IF vm.fail_at = iter'
                  THEN result' = Err("SysCallError") /\ regions' = <<>>
                  ELSE /\ result' = Ok(regions')
                       /\ info'.BaseAddress + info'.RegionSize >= ModuleEnd]_vars
  /\ <>(pc = "win_done")

\* C18 witness: a walk of three queries that ended with its regions
C18_Witness ==
  /\ pc = "win_done" /\ result.kind = "Ok" /\ iter = 3
  /\ module.base_size = 3

\* ------------------------------------------------------------- claims on benchmark
RECURSIVE TotalLength(_)
TotalLength(rs) ==
  IF rs = <<>> THEN 0
  ELSE (Head(rs).end - Head(rs).start) + TotalLength(Tail(rs))

====
